---- MODULE Spec2Model ----
(***************************************************************************)
(* Model of the strategy class ZUUK1m1p                                    *)
(* (src/user_data/strategies/ZUUK1m1p.py): the three populate_* callbacks  *)
(* that annotate a candle DataFrame and the custom_stoploss callback, as   *)
(* they are driven by the trading host.                                    *)
(*                                                                         *)
(* Numbers.  A Python/numpy float is modelled by an exact rational         *)
(* <<n, d>> in lowest terms with d > 0.  The IEEE specials are kept:       *)
(* NaN is <<0, 0>>, +inf is <<1, 0>>, -inf is <<-1, 0>>.  Rounding of      *)
(* binary floating point is not modelled: every arithmetic step is exact.  *)
(* Times are integer seconds.                                              *)
(*                                                                         *)
(* A DataFrame is a sequence of rows; a row is a function from column      *)
(* names to values.  A column that does not exist is absent from the       *)
(* row's DOMAIN.                                                           *)
(***************************************************************************)
EXTENDS Integers, Sequences, FiniteSets, TLC

VARIABLES
    dataframe,  \* the candle DataFrame the host holds for the pair
    stage,      \* where the host is in its refresh/analyse cycle
    trade,      \* the host's Trade (position) for the pair
    sl          \* activation record of the custom_stoploss call that has just returned

vars == <<dataframe, stage, trade, sl>>

----------------------------------------------------------------------------
(* Float arithmetic                                                        *)

NaN == <<0, 0>>

R(k) == <<k, 1>>

Abs(k) == IF k < 0 THEN -k ELSE k

Sign(k) == IF k < 0 THEN -1 ELSE IF k > 0 THEN 1 ELSE 0

RECURSIVE GCD(_, _)
GCD(a, b) == IF b = 0 THEN a ELSE GCD(b, a % b)

Norm(n, d) ==
    IF d = 0 THEN <<Sign(n), 0>>
    ELSE LET g == GCD(Abs(n), Abs(d))
             s == IF d < 0 THEN -1 ELSE 1
         IN  <<(s * n) \div g, (s * d) \div g>>

IsNaN(x) == x = NaN

IsFinite(x) == x[2] # 0

Neg(x) == <<-x[1], x[2]>>

\* x * y; inf * 0 and NaN * y come out as NaN.  Common factors are
\* cancelled crosswise before the products are formed.
Mul(x, y) ==
    LET g1 == GCD(Abs(x[1]), Abs(y[2]))
        g2 == GCD(Abs(y[1]), Abs(x[2]))
    IN  IF g1 = 0 \/ g2 = 0 THEN Norm(x[1] * y[1], x[2] * y[2])
        ELSE Norm((x[1] \div g1) * (y[1] \div g2), (x[2] \div g2) * (y[2] \div g1))

\* x + y; inf + (-inf) and NaN + y come out as NaN.  Finite operands are
\* brought to their least common denominator.
Add(x, y) ==
    IF x[2] = 0 /\ y[2] = 0 /\ x = y THEN x
    ELSE IF x[2] = 0 \/ y[2] = 0
         THEN Norm(x[1] * y[2] + y[1] * x[2], x[2] * y[2])
    ELSE LET g == GCD(x[2], y[2])
         IN  Norm(x[1] * (y[2] \div g) + y[1] * (x[2] \div g), (x[2] \div g) * y[2])

Sub(x, y) == Add(x, Neg(y))

Recip(x) == IF x[1] < 0 THEN <<-x[2], -x[1]>> ELSE <<x[2], x[1]>>

\* numpy division: 0/0 is NaN, x/0 is +-inf, never an exception.
Div(x, y) == Mul(x, Recip(y))

\* a/b > c/d for b, d > 0, by integer parts and then remainders, so that no
\* product of a numerator and a denominator is formed.
RECURSIVE GTFrac(_, _, _, _)
GTFrac(a, b, c, d) ==
    LET qa == a \div b
        qc == c \div d
        ra == a - qa * b
        rc == c - qc * d
    IN  IF qa # qc THEN qa > qc
        ELSE IF ra = 0 THEN FALSE
        ELSE IF rc = 0 THEN TRUE
        ELSE GTFrac(d, rc, b, ra)

\* x > y; FALSE as soon as one side is NaN.
GT(x, y) ==
    IF IsNaN(x) \/ IsNaN(y) THEN FALSE
    ELSE IF x[2] = 0 \/ y[2] = 0
         THEN IF x[2] = 0 /\ y[2] = 0 THEN x[1] > y[1]
              ELSE IF x[2] = 0 THEN x[1] > 0 ELSE y[1] < 0
    ELSE GTFrac(x[1], x[2], y[1], y[2])

\* x >= y; FALSE as soon as one side is NaN.
GE(x, y) == ~IsNaN(x) /\ ~IsNaN(y) /\ ~GT(y, x)

\* Python's max(a, b, c): the first argument is kept until a later one
\* compares greater, so a leading NaN is returned and a later NaN is skipped.
PyMax3(a, b, c) ==
    LET m == IF GT(b, a) THEN b ELSE a
    IN  IF GT(c, m) THEN c ELSE m

FAbs(x) == <<Abs(x[1]), x[2]>>

FMax(x, y) == IF GT(y, x) THEN y ELSE x

FMin(x, y) == IF GT(x, y) THEN y ELSE x

----------------------------------------------------------------------------
(* Class attributes                                                        *)

stoploss == <<-3, 20>>

startup_candle_count == 200

----------------------------------------------------------------------------
(* DataFrame helpers.                                                      *)
(*                                                                         *)
(* Evaluation.  An operator that works on a frame or a column binds its    *)
(* arguments first, `x \in {arg}`, so that each is computed once, as an    *)
(* assignment to a local is; `CHOOSE out \in {...} : out = out` returns    *)
(* the one value built and has it tabulated (a Series holds values, not a  *)
(* formula).  Loops over rows walk the row range in halves, left half      *)
(* first, which keeps the evaluation shallow.                              *)

Column(df, name) ==
    CHOOSE out \in { [i \in 1..Len(d) |-> d[i][name]] : d \in {df} } : out = out

\* dataframe[name] = col : the column is created or overwritten.
SetColumn(df, name, col) ==
    CHOOSE out \in
        { [i \in 1..Len(d) |->
              [k \in DOMAIN d[i] \cup {name} |-> IF k = name THEN c[i] ELSE d[i][k]]]
          : d \in {df}, c \in {col} } : out = out

\* dataframe.loc[mask, name] = value : a missing column is created as NaN;
\* the rows outside the mask keep what they had.
LocSet(df, mask, name, value) ==
    CHOOSE out \in
        { [i \in 1..Len(d) |->
              [k \in DOMAIN d[i] \cup {name} |->
                  IF k # name THEN d[i][k]
                  ELSE IF m[i] THEN value
                  ELSE IF name \in DOMAIN d[i] THEN d[i][name]
                  ELSE NaN]]
          : d \in {df}, m \in {mask} } : out = out

\* col[lo] + ... + col[hi]
RECURSIVE SumRange(_, _, _)
SumRange(col, lo, hi) ==
    CHOOSE out \in
        { IF l > h THEN R(0)
          ELSE IF l = h THEN c[l]
          ELSE Add(SumRange(c, l, (l + h) \div 2), SumRange(c, (l + h) \div 2 + 1, h))
          : c \in {col}, l \in {lo}, h \in {hi} } : TRUE

\* min(col[lo], ..., col[hi]), NaN if one of them is NaN
RECURSIVE MinRange(_, _, _)
MinRange(col, lo, hi) ==
    CHOOSE out \in
        { IF l = h THEN c[h]
          ELSE IF IsNaN(m) \/ IsNaN(c[h]) THEN NaN ELSE FMin(m, c[h])
          : c \in {col}, l \in {lo}, h \in {hi},
            m \in {IF lo = hi THEN NaN ELSE MinRange(col, lo, hi - 1)} } : TRUE

\* The running <<sum, number of observations>> of a rolling window: a NaN
\* entry is not an observation.
RollingAdd(prev, x) == IF IsNaN(x) THEN prev ELSE <<Add(prev[1], x), prev[2] + 1>>

\* The running totals over rows lo..hi, appended to acc.
RECURSIVE RollingLoop(_, _, _, _)
RollingLoop(col, lo, hi, acc) ==
    CHOOSE out \in
        { IF l > h THEN a
          ELSE IF l = h THEN Append(a, RollingAdd(a[Len(a)], c[l]))
          ELSE RollingLoop(c, (l + h) \div 2 + 1, h,
                           RollingLoop(c, l, (l + h) \div 2, a))
          : c \in {col}, l \in {lo}, h \in {hi}, a \in {acc} } : TRUE

\* Series.rolling(window=w).mean(): the window's sum over its number of
\* observations, NaN while the window holds fewer than w observations
\* (min_periods defaults to the window).  run[i + 1] totals rows 1..i.
RollingMean(col, w) ==
    CHOOSE out \in
        { [i \in 1..(Len(run) - 1) |->
              IF i < w \/ run[i + 1][2] - run[i + 1 - w][2] < w THEN NaN
              ELSE Div(Sub(run[i + 1][1], run[i + 1 - w][1]),
                       R(run[i + 1][2] - run[i + 1 - w][2]))]
          : run \in {RollingLoop(col, 1, Len(col), << <<R(0), 0>> >>)} } : out = out

\* Series.rolling(window=w).min()
RollingMin(col, w) ==
    CHOOSE out \in
        { [i \in 1..Len(c) |-> IF i < w THEN NaN ELSE MinRange(c, i - w + 1, i)]
          : c \in {col} } : out = out

\* Series.pct_change(): close / close.shift(1) - 1, NaN in the first row.
PctChange(col) ==
    CHOOSE out \in
        { [i \in 1..Len(c) |-> IF i = 1 THEN NaN ELSE Sub(Div(c[i], c[i - 1]), R(1))]
          : c \in {col} } : out = out

----------------------------------------------------------------------------
(* TA-Lib                                                                  *)

\* The true range of every row; the first row has none.
TrueRange(df) ==
    CHOOSE out \in
        { [i \in 1..Len(d) |->
              IF i = 1 THEN NaN
              ELSE FMax(Sub(d[i]["high"], d[i]["low"]),
                        FMax(FAbs(Sub(d[i]["high"], d[i - 1]["close"])),
                             FAbs(Sub(d[i]["low"], d[i - 1]["close"]))))]
          : d \in {df} } : out = out

\* One step of Wilder's smoothing.
WilderStep(prev, tr, period) == Div(Add(Mul(prev, R(period - 1)), tr), R(period))

\* The smoothing loop over rows lo..hi, continuing the output column acc whose
\* last entry is the previous value.
RECURSIVE WilderLoop(_, _, _, _, _)
WilderLoop(tr, period, lo, hi, acc) ==
    CHOOSE out \in
        { IF l > h THEN a
          ELSE IF l = h THEN Append(a, WilderStep(a[Len(a)], t[l], period))
          ELSE WilderLoop(t, period, (l + h) \div 2 + 1, h,
                          WilderLoop(t, period, l, (l + h) \div 2, a))
          : t \in {tr}, l \in {lo}, h \in {hi}, a \in {acc} } : TRUE

\* ATR from the true ranges: NaN for the first `period` rows, then the mean of
\* the first `period` true ranges, then Wilder's smoothing.
WilderATR(tr, period) ==
    CHOOSE out \in
        { IF Len(t) <= period THEN [i \in 1..Len(t) |-> NaN]
          ELSE WilderLoop(t, period, period + 2, Len(t),
                          Append([i \in 1..period |-> NaN],
                                 Div(SumRange(t, 2, period + 1), R(period))))
          : t \in {tr} } : out = out

\* ta.ATR(dataframe, timeperiod)
ATR(df, period) == WilderATR(TrueRange(df), period)

\* One step of the exponential average at a row with value x.
EMAStep(prev, x, period) == Add(Mul(Sub(x, prev), <<2, period + 1>>), prev)

RECURSIVE EMALoop(_, _, _, _, _)
EMALoop(col, period, lo, hi, acc) ==
    CHOOSE out \in
        { IF l > h THEN a
          ELSE IF l = h THEN Append(a, EMAStep(a[Len(a)], c[l], period))
          ELSE EMALoop(c, period, (l + h) \div 2 + 1, h,
                       EMALoop(c, period, l, (l + h) \div 2, a))
          : c \in {col}, l \in {lo}, h \in {hi}, a \in {acc} } : TRUE

\* The exponential average of a column: NaN for the first period-1 rows,
\* seeded with the simple mean of the first `period` values.
EMAOf(col, period) ==
    CHOOSE out \in
        { IF Len(c) < period THEN [i \in 1..Len(c) |-> NaN]
          ELSE EMALoop(c, period, period + 1, Len(c),
                       Append([i \in 1..(period - 1) |-> NaN],
                              Div(SumRange(c, 1, period), R(period))))
          : c \in {col} } : out = out

\* ta.EMA(dataframe, timeperiod), which averages the close column
EMA(df, period) == EMAOf(Column(df, "close"), period)

----------------------------------------------------------------------------
(* The populate_* callbacks, as functions of the DataFrame handed in       *)

set_price_change(df) ==
    CHOOSE out \in
        { SetColumn(d, "price_change", PctChange(Column(d, "close"))) : d \in {df} } : TRUE

set_atr(df) ==
    CHOOSE out \in { SetColumn(d, "atr", ATR(d, 14)) : d \in {df} } : TRUE

set_long_atr(df) ==
    CHOOSE out \in
        { SetColumn(d, "long_atr", RollingMean(Column(d, "atr"), 100)) : d \in {df} } : TRUE

set_atr_ratio(df) ==
    CHOOSE out \in
        { SetColumn(d, "atr_ratio",
                    [i \in 1..Len(d) |-> Div(d[i]["atr"], d[i]["long_atr"])])
          : d \in {df} } : TRUE

set_ema_short(df) ==
    CHOOSE out \in { SetColumn(d, "ema_short", EMA(d, 50)) : d \in {df} } : TRUE

set_ema_long(df) ==
    CHOOSE out \in { SetColumn(d, "ema_long", EMA(d, 200)) : d \in {df} } : TRUE

set_uptrend(df) ==
    CHOOSE out \in
        { SetColumn(d, "uptrend",
                    [i \in 1..Len(d) |-> GT(d[i]["ema_short"], d[i]["ema_long"])])
          : d \in {df} } : TRUE

\* Fault variant of set_swing_low: the rolling minimum is written over the
\* host's low column instead of a new column.
set_swing_low_overwrites_low(df) ==
    CHOOSE out \in
        { SetColumn(d, "low", RollingMin(Column(d, "low"), 5)) : d \in {df} } : TRUE

set_swing_low(df) ==
    CHOOSE out \in
        { SetColumn(d, "swing_low", RollingMin(Column(d, "low"), 5)) : d \in {df} } : TRUE

populate_indicators(df) ==
    set_swing_low(set_uptrend(set_ema_long(set_ema_short(
        set_atr_ratio(set_long_atr(set_atr(set_price_change(df))))))))

\* Fault variant of populate_buy_trend: a strict comparison.
populate_buy_trend_strict(df) ==
    CHOOSE out \in
        { LocSet(d, [i \in 1..Len(d) |-> GT(d[i]["price_change"], <<1, 100>>)],
                 "buy", R(1))
          : d \in {df} } : TRUE

populate_buy_trend(df) ==
    CHOOSE out \in
        { LocSet(d, [i \in 1..Len(d) |-> GE(d[i]["price_change"], <<1, 100>>)],
                 "buy", R(1))
          : d \in {df} } : TRUE

\* Fault variant of populate_sell_trend: the signal is raised (1) instead of
\* being cleared (0).
populate_sell_trend_raises(df) ==
    CHOOSE out \in
        { LocSet(d, [i \in 1..Len(d) |-> GT(d[i]["close"], R(0))], "sell", R(1))
          : d \in {df} } : TRUE

populate_sell_trend(df) ==
    CHOOSE out \in
        { LocSet(d, [i \in 1..Len(d) |-> GT(d[i]["close"], R(0))], "sell", R(0))
          : d \in {df} } : TRUE

----------------------------------------------------------------------------
(* custom_stoploss                                                         *)

\* Fault variant of insufficient_data: off by one (<= instead of <).
insufficient_data_inclusive(df) == Len(df) <= startup_candle_count

\* len(dataframe) < self.startup_candle_count
insufficient_data(df) == Len(df) < startup_candle_count

\* Fault variant of base_multiplier: the trend factor is added, not multiplied.
base_multiplier_additive(uptrend, atr_ratio) ==
    IF uptrend THEN Add(<<3, 2>>, atr_ratio) ELSE Add(R(1), atr_ratio)

base_multiplier(uptrend, atr_ratio) ==
    IF uptrend THEN Mul(<<3, 2>>, atr_ratio) ELSE Mul(R(1), atr_ratio)

\* Fault variant of profit_adjust: `if` instead of `elif`, so that a profit
\* above 5% is tightened by both tiers.
profit_adjust_both_tiers(atr_multiplier, current_profit) ==
    LET m == IF GT(current_profit, <<1, 20>>) THEN Mul(atr_multiplier, <<4, 5>>)
             ELSE atr_multiplier
    IN  IF GT(current_profit, <<1, 50>>) THEN Mul(m, <<9, 10>>) ELSE m

profit_adjust(atr_multiplier, current_profit) ==
    IF GT(current_profit, <<1, 20>>) THEN Mul(atr_multiplier, <<4, 5>>)
    ELSE IF GT(current_profit, <<1, 50>>) THEN Mul(atr_multiplier, <<9, 10>>)
    ELSE atr_multiplier

\* (current_time - trade.open_date_utc).total_seconds() / 60
trade_duration(current_time, open_date_utc) ==
    Div(R(current_time - open_date_utc), R(60))

\* Fault variant of duration_adjust: the stop is widened (1.2) after two
\* hours instead of tightened (0.8).
duration_adjust_widens(atr_multiplier, duration) ==
    IF GT(duration, R(120)) THEN Mul(atr_multiplier, <<6, 5>>) ELSE atr_multiplier

duration_adjust(atr_multiplier, duration) ==
    IF GT(duration, R(120)) THEN Mul(atr_multiplier, <<4, 5>>) ELSE atr_multiplier

\* Fault variant of atr_stoploss_pct: the ATR band is added to the rate.
atr_stoploss_pct_above(current_rate, atr, atr_multiplier, open_rate) ==
    LET atr_stoploss_price == Add(current_rate, Mul(atr, atr_multiplier))
    IN  Div(Sub(atr_stoploss_price, open_rate), open_rate)

atr_stoploss_pct(current_rate, atr, atr_multiplier, open_rate) ==
    LET atr_stoploss_price == Sub(current_rate, Mul(atr, atr_multiplier))
    IN  Div(Sub(atr_stoploss_price, open_rate), open_rate)

swing_stoploss_pct(swing_low, open_rate) ==
    LET swing_stoploss_price == Mul(swing_low, <<99, 100>>)
    IN  Div(Sub(swing_stoploss_price, open_rate), open_rate)

\* Fault variant of stoploss_pct: the static stoploss is left out of max().
stoploss_pct_no_floor(atr_pct, swing_pct) == PyMax3(atr_pct, swing_pct, swing_pct)

\* Fault variant of stoploss_pct: the static stoploss with the wrong sign.
stoploss_pct_positive_floor(atr_pct, swing_pct) == PyMax3(atr_pct, swing_pct, <<3, 20>>)

stoploss_pct(atr_pct, swing_pct) == PyMax3(atr_pct, swing_pct, stoploss)

\* The activation record of one call at its return: the arguments, the path
\* taken, the locals that were assigned and the value returned.
custom_stoploss(dataframe_, tr, current_time, current_rate, current_profit) ==
    CHOOSE out \in
        { IF insufficient_data(df)
          THEN [pc |-> "insufficient", current_time |-> current_time,
                current_rate |-> current_rate, current_profit |-> current_profit,
                ret |-> R(1)]
          ELSE LET last_candle == df[Len(df)]
                   atr == last_candle["atr"]
                   atr_ratio == last_candle["atr_ratio"]
                   uptrend == last_candle["uptrend"]
                   swing_low == last_candle["swing_low"]
                   m0 == base_multiplier(uptrend, atr_ratio)
                   m1 == profit_adjust(m0, current_profit)
                   duration == trade_duration(current_time, tr.open_date_utc)
                   m2 == duration_adjust(m1, duration)
                   atr_pct == atr_stoploss_pct(current_rate, atr, m2, tr.open_rate)
                   swing_pct == swing_stoploss_pct(swing_low, tr.open_rate)
               IN  [pc |-> "computed", current_time |-> current_time,
                    current_rate |-> current_rate, current_profit |-> current_profit,
                    atr |-> atr, atr_ratio |-> atr_ratio, uptrend |-> uptrend,
                    swing_low |-> swing_low, trade_duration |-> duration,
                    atr_multiplier |-> m2, atr_stoploss_pct |-> atr_pct,
                    swing_stoploss_pct |-> swing_pct,
                    ret |-> stoploss_pct(atr_pct, swing_pct)]
          : df \in {dataframe_} } : TRUE

----------------------------------------------------------------------------
(* The state holds a DataFrame run-length encoded: a sequence of runs      *)
(* [row, count], equal neighbouring rows sharing a run.  Pack and Unpack   *)
(* are inverse to each other; every callback works on the unpacked frame.  *)

JoinRuns(left, right) ==
    CHOOSE out \in
        { IF Len(a) = 0 THEN b
          ELSE IF Len(b) = 0 THEN a
          ELSE IF a[Len(a)].row = b[1].row
               THEN SubSeq(a, 1, Len(a) - 1)
                    \o <<[row |-> b[1].row, count |-> a[Len(a)].count + b[1].count]>>
                    \o Tail(b)
          ELSE a \o b
          : a \in {left}, b \in {right} } : TRUE

RECURSIVE PackRange(_, _, _)
PackRange(df, lo, hi) ==
    CHOOSE out \in
        { IF l > h THEN <<>>
          ELSE IF l = h THEN <<[row |-> d[l], count |-> 1]>>
          ELSE JoinRuns(PackRange(d, l, (l + h) \div 2),
                        PackRange(d, (l + h) \div 2 + 1, h))
          : d \in {df}, l \in {lo}, h \in {hi} } : TRUE

Pack(df) == CHOOSE out \in { PackRange(d, 1, Len(d)) : d \in {df} } : TRUE

RECURSIVE RunsLen(_)
RunsLen(runs) ==
    CHOOSE out \in
        { IF Len(r) = 0 THEN 0 ELSE r[1].count + RunsLen(Tail(r)) : r \in {runs} } : TRUE

RECURSIVE RowAt(_, _)
RowAt(runs, i) ==
    CHOOSE out \in
        { IF k <= r[1].count THEN r[1].row ELSE RowAt(Tail(r), k - r[1].count)
          : r \in {runs}, k \in {i} } : TRUE

Unpack(runs) ==
    CHOOSE out \in
        { [i \in 1..n |-> RowAt(r, i)] : r \in {runs}, n \in {RunsLen(runs)} } : TRUE

----------------------------------------------------------------------------
(* The host: candle data, the trade, and the calls it makes                *)

\* Number of freely chosen candles at the end of a fetched history; the
\* candles before them repeat the quiet candle.
FreeTail == 2

Candle(o, h, l, c) ==
    [open |-> R(o), high |-> R(h), low |-> R(l), close |-> R(c), volume |-> R(1)]

QuietCandle == Candle(100, 100, 100, 100)

CandleTypes ==
    { QuietCandle,
      Candle(100, 101, 100, 101),
      Candle(101, 102, 99, 102),
      Candle(100, 100, 98, 98) }

HistoryLengths ==
    {1, 2, startup_candle_count - 1, startup_candle_count, startup_candle_count + 1}

Min(a, b) == IF a < b THEN a ELSE b

RawFrame(n, tail) ==
    [i \in 1..n |->
        IF i <= n - Len(tail) THEN QuietCandle ELSE tail[i - (n - Len(tail))]]

RawFrames ==
    UNION { { RawFrame(n, tail) : tail \in [1..Min(n, FreeTail) -> CandleTypes] }
            : n \in HistoryLengths }

PackedRawFrames == { Pack(f) : f \in RawFrames }

NoTrade == [is_open |-> FALSE, open_rate |-> R(0), open_date_utc |-> 0]

OpenRates == {R(100), R(110)}

OpenDates == {1800}

OpenTrades ==
    { [is_open |-> TRUE, open_rate |-> r, open_date_utc |-> d] :
          r \in OpenRates, d \in OpenDates }

\* 10 minutes, exactly 120 minutes, one second more, and 150 minutes after
\* the opening date.
CallTimes == {2400, 9000, 9001, 10800}

CallRates == {R(80), R(105)}

CallProfits == {<<-1, 5>>, <<1, 50>>, <<3, 100>>, <<1, 20>>, <<3, 50>>}

NoCall == [pc |-> "idle"]

\* The frame the callbacks see.
Frame == Unpack(dataframe)

Init ==
    /\ dataframe = Pack(<<>>)
    /\ stage = "cached"
    /\ trade = NoTrade
    /\ sl = NoCall

\* The host is single-threaded: it takes the value a custom_stoploss call
\* returned before it does anything else.
Idle == sl = NoCall

\* The host fetches the pair's candle history.
HostRefresh ==
    /\ Idle
    /\ stage = "cached"
    /\ \E f \in PackedRawFrames : dataframe' = f
    /\ stage' = "raw"
    /\ UNCHANGED <<trade, sl>>

Call_populate_indicators ==
    /\ stage = "raw"
    /\ dataframe' = Pack(populate_indicators(Frame))
    /\ stage' = "indicators"
    /\ UNCHANGED <<trade, sl>>

Call_populate_buy_trend ==
    /\ stage = "indicators"
    /\ dataframe' = Pack(populate_buy_trend(Frame))
    /\ stage' = "buy"
    /\ UNCHANGED <<trade, sl>>

Call_populate_sell_trend ==
    /\ stage = "buy"
    /\ dataframe' = Pack(populate_sell_trend(Frame))
    /\ stage' = "sell"
    /\ UNCHANGED <<trade, sl>>

\* The host stores the analysed frame in the data provider.
HostCache ==
    /\ stage = "sell"
    /\ stage' = "cached"
    /\ UNCHANGED <<dataframe, trade, sl>>

HostOpenTrade ==
    /\ Idle
    /\ stage = "cached"
    /\ ~trade.is_open
    /\ \E t \in OpenTrades : trade' = t
    /\ UNCHANGED <<dataframe, stage, sl>>

HostCloseTrade ==
    /\ Idle
    /\ stage = "cached"
    /\ trade.is_open
    /\ trade' = NoTrade
    /\ UNCHANGED <<dataframe, stage, sl>>

\* The host asks for the stop of the open trade; self.dp.get_analyzed_dataframe
\* hands out the cached frame (an empty one before the first analysis).
Call_custom_stoploss ==
    /\ Idle
    /\ stage = "cached"
    /\ trade.is_open
    /\ \E df \in {Frame} :
         \E t \in CallTimes, r \in CallRates, p \in CallProfits :
           /\ t >= trade.open_date_utc
           /\ sl' = custom_stoploss(df, trade, t, r, p)
    /\ UNCHANGED <<dataframe, stage, trade>>

\* The host takes the returned value; the call's activation record is gone.
HostTakeStoploss ==
    /\ ~Idle
    /\ sl' = NoCall
    /\ UNCHANGED <<dataframe, stage, trade>>

Next ==
    \/ HostRefresh
    \/ Call_populate_indicators
    \/ Call_populate_buy_trend
    \/ Call_populate_sell_trend
    \/ HostCache
    \/ HostOpenTrade
    \/ HostCloseTrade
    \/ Call_custom_stoploss
    \/ HostTakeStoploss

Spec == Init /\ [][Next]_vars

----------------------------------------------------------------------------
(* custom_stoploss on its own: the data provider hands out an analysed     *)
(* frame whose last candle carries any indicator values                    *)

\* An analysed row of a quiet market after warm-up.
QuietRow ==
    [open |-> R(100), high |-> R(100), low |-> R(100), close |-> R(100),
     volume |-> R(1), price_change |-> R(0), atr |-> R(0), long_atr |-> R(0),
     atr_ratio |-> NaN, ema_short |-> R(100), ema_long |-> R(100),
     uptrend |-> FALSE, swing_low |-> R(100), buy |-> NaN, sell |-> R(0)]

\* The last analysed row: atr_ratio is atr / long_atr, as populate_indicators
\* computes it.
LastRow(atr, long_atr, uptrend, swing_low) ==
    [QuietRow EXCEPT !.atr = atr, !.long_atr = long_atr,
                     !.atr_ratio = Div(atr, long_atr),
                     !.ema_short = IF uptrend THEN R(101) ELSE R(100),
                     !.uptrend = uptrend, !.swing_low = swing_low]

AnalyzedFrame(n, last) == [i \in 1..n |-> IF i < n THEN QuietRow ELSE last]

AnalyzedLengths ==
    {0, startup_candle_count - 1, startup_candle_count, startup_candle_count + 1}

\* <<atr, long_atr>> of the last candle
AtrPairs ==
    { <<R(0), R(0)>>, <<R(0), R(1)>>, <<R(1), <<5, 6>>>>,
      <<R(1), R(2)>>, <<R(2), R(1)>>, <<R(30), R(10)>> }

SwingLows == {R(80), R(103), R(120)}

AnalyzedFrames ==
    { AnalyzedFrame(n, LastRow(a[1], a[2], u, s)) :
          n \in AnalyzedLengths, a \in AtrPairs, u \in BOOLEAN, s \in SwingLows }

PackedAnalyzedFrames == { Pack(f) : f \in AnalyzedFrames }

InitSL ==
    /\ dataframe \in PackedAnalyzedFrames
    /\ stage = "cached"
    /\ trade \in OpenTrades
    /\ sl = NoCall

NextSL == Call_custom_stoploss \/ HostTakeStoploss

SpecSL == InitSL /\ [][NextSL]_vars

----------------------------------------------------------------------------
(* Properties                                                              *)

\* The last candle of the frame in the state.
LastCandle == RowAt(dataframe, RunsLen(dataframe))

\* v is the greatest of a, b, c (all defined).
IsMax3(v, a, b, c) == v \in {a, b, c} /\ GE(v, a) /\ GE(v, b) /\ GE(v, c)

\* The last candle's indicators that custom_stoploss reads are defined.
IndicatorsDefined ==
    /\ IsFinite(LastCandle["atr"])
    /\ IsFinite(LastCandle["atr_ratio"])
    /\ IsFinite(LastCandle["swing_low"])

\* ((current_rate - atr * multiplier) - open_rate) / open_rate, from the state
AtrStopPct ==
    Div(Sub(Sub(sl.current_rate, Mul(LastCandle["atr"], sl.atr_multiplier)),
            trade.open_rate),
        trade.open_rate)

\* (swing_low * 0.99 - open_rate) / open_rate, from the state
SwingStopPct ==
    Div(Sub(Mul(LastCandle["swing_low"], <<99, 100>>), trade.open_rate),
        trade.open_rate)

\* C1: with fewer than 200 candles in the analysed frame custom_stoploss
\* returns 1 whatever the trade, rate, profit and time are, and assigns none of
\* the last candle's indicators; with 200 candles or more it goes on to the
\* computation.
Thm_C1_InsufficientHistory ==
    sl.pc # "idle" =>
        /\ RunsLen(dataframe) < 200 =>
               /\ sl.pc = "insufficient"
               /\ sl.ret = <<1, 1>>
               /\ DOMAIN sl \cap {"atr", "atr_ratio", "uptrend", "swing_low"} = {}
        /\ RunsLen(dataframe) >= 200 => sl.pc = "computed"

Wit_C1_OneCandleShort ==
    /\ sl.pc = "insufficient"
    /\ RunsLen(dataframe) = 199
    /\ "atr_ratio" \in DOMAIN LastCandle

\* C2: with at least 200 candles, defined indicators and open_rate > 0 the
\* returned fraction is at least -0.15.
Thm_C2_FloorHolds ==
    (sl.pc = "computed" /\ IndicatorsDefined /\ GT(trade.open_rate, <<0, 1>>)) =>
        /\ sl.ret[2] > 0
        /\ 20 * sl.ret[1] >= -3 * sl.ret[2]

\* Both computed stops lie below the floor and the floor is returned.
Wit_C2_FloorBinds ==
    /\ sl.pc = "computed"
    /\ IndicatorsDefined
    /\ GT(<<-3, 20>>, AtrStopPct)
    /\ GT(<<-3, 20>>, SwingStopPct)
    /\ sl.ret = <<-3, 20>>

\* The call of the example: open_rate 100, current_rate 105, atr 1.0,
\* atr_ratio 1.2, uptrend, profit 0.03, 10 minutes after the opening,
\* swing_low 103.
ExampleCall ==
    /\ sl.pc = "computed"
    /\ trade.open_rate = <<100, 1>>
    /\ sl.current_rate = <<105, 1>>
    /\ LastCandle["atr"] = <<1, 1>>
    /\ LastCandle["atr_ratio"] = <<6, 5>>
    /\ LastCandle["uptrend"]
    /\ sl.current_profit = <<3, 100>>
    /\ sl.current_time - trade.open_date_utc = 600
    /\ LastCandle["swing_low"] = <<103, 1>>

\* C3: with at least 200 candles (and defined indicators) the value returned
\* is the greatest of atr_stop_pct, swing_stop_pct and -0.15; the example call
\* has multiplier 1.62 and returns 0.0338.
Thm_C3_ResultIsMax ==
    /\ (sl.pc = "computed" /\ IndicatorsDefined) =>
           IsMax3(sl.ret, AtrStopPct, SwingStopPct, <<-3, 20>>)
    /\ ExampleCall => sl.atr_multiplier = <<81, 50>> /\ sl.ret = <<169, 5000>>

Wit_C3_Example == ExampleCall

\* C4 as stated: the returned fraction is at most the greater of atr_stop_pct
\* and swing_stop_pct.
Orig_C4_AtMostGreaterStop ==
    (sl.pc = "computed" /\ IndicatorsDefined) =>
        GE(FMax(AtrStopPct, SwingStopPct), sl.ret)

\* C4 amended: with defined indicators the returned fraction is at most the
\* greater of atr_stop_pct and swing_stop_pct whenever that greater one is at
\* least -0.15, and it is -0.15 otherwise.
Thm_C4_AtMostGreaterStopOrFloor ==
    (sl.pc = "computed" /\ IndicatorsDefined) =>
        IF GE(FMax(AtrStopPct, SwingStopPct), <<-3, 20>>)
        THEN GE(FMax(AtrStopPct, SwingStopPct), sl.ret)
        ELSE sl.ret = <<-3, 20>>

Wit_C4_BelowFloor ==
    /\ sl.pc = "computed"
    /\ IndicatorsDefined
    /\ GT(sl.ret, FMax(AtrStopPct, SwingStopPct))

\* populate_sell_trend has run on the frame in the state.
SellPopulated == stage \in {"sell", "cached"} /\ RunsLen(dataframe) > 0

\* C5 as stated: after populate_sell_trend the exit signal is set (1) on every
\* candle whose close is greater than 0.
Orig_C5_ExitSet ==
    SellPopulated =>
        \A k \in 1..Len(dataframe) :
            dataframe[k].row["close"][1] > 0 => dataframe[k].row["sell"] = <<1, 1>>

\* C5 amended: after populate_sell_trend the exit column holds 0 (signal not
\* set) on every candle whose close is greater than 0, and holds 1 on none.
Thm_C5_ExitCleared ==
    SellPopulated =>
        \A k \in 1..Len(dataframe) :
            /\ dataframe[k].row["close"][1] > 0 => dataframe[k].row["sell"] = <<0, 1>>
            /\ dataframe[k].row["sell"] # <<1, 1>>

Wit_C5_SellPopulated ==
    /\ stage = "sell"
    /\ RunsLen(dataframe) >= 200
    /\ \E k \in 1..Len(dataframe) : dataframe[k].row["close"][1] > 0

\* populate_buy_trend has run on the frame in the state.
BuyPopulated == stage \in {"buy", "sell", "cached"} /\ RunsLen(dataframe) > 0

\* (close[i] - close[i-1]) / close[i-1] >= 0.01 for positive closes given as
\* fractions: 100 * (c * pd - p * cd) >= p * cd, with c/cd the close of row i
\* and p/pd the close of row i - 1.
GainAtLeastOnePercent(cur, prev) ==
    100 * (cur[1] * prev[2] - prev[1] * cur[2]) >= prev[1] * cur[2]

\* C6: after populate_buy_trend the entry signal of row i is 1 exactly when
\* i is not the first row and (close[i] - close[i-1]) / close[i-1] >= 0.01,
\* and is unset (NaN) otherwise, whatever uptrend and atr_ratio are.
Thm_C6_EntryRule ==
    BuyPopulated =>
        \A df \in {Frame} :
            \A i \in 1..Len(df) :
                IF i > 1 /\ GainAtLeastOnePercent(df[i]["close"], df[i - 1]["close"])
                THEN df[i]["buy"] = <<1, 1>>
                ELSE df[i]["buy"] = NaN

\* An entry signal on a candle that gained exactly 1%, not in an uptrend and
\* without a defined atr_ratio, and no entry signal on the first row.
Wit_C6_ExactlyOnePercent ==
    /\ BuyPopulated
    /\ \E df \in {Frame} :
           /\ df[1]["buy"] = NaN
           /\ \E i \in 2..Len(df) :
                  /\ df[i]["buy"] = <<1, 1>>
                  /\ df[i]["close"] = <<101, 1>>
                  /\ df[i - 1]["close"] = <<100, 1>>
                  /\ ~df[i]["uptrend"]
                  /\ IsNaN(df[i]["atr_ratio"])

\* A step in which one of the four callbacks ran.
CallbackStep ==
    \/ stage' # stage /\ stage' \in {"indicators", "buy", "sell"}
    \/ sl' # sl /\ sl'.pc # "idle"

HostColumns == {"open", "high", "low", "close", "volume"}

\* The frame keeps its rows, their order and their host columns, every column
\* it had is still there, and the trade is as it was.
HostDataKept ==
    /\ trade' = trade
    /\ \A old \in {Frame} : \A new \in {Frame'} :
           /\ Len(new) = Len(old)
           /\ \A i \in 1..Len(old) :
                  /\ DOMAIN old[i] \subseteq DOMAIN new[i]
                  /\ \A c \in HostColumns : new[i][c] = old[i][c]

\* C7: no call of populate_indicators, populate_buy_trend, populate_sell_trend
\* or custom_stoploss changes the length, the order or the
\* open/high/low/close/volume values of the candle series, or a field of the
\* trade; columns are only added.
Thm_C7_HostDataUnchanged == [][CallbackStep => HostDataKept]_vars

\* custom_stoploss has computed a stop on a frame that went through the three
\* populate_* callbacks.
Wit_C7_AllCallbacksRan ==
    /\ sl.pc = "computed"
    /\ {"swing_low", "buy", "sell"} \subseteq DOMAIN LastCandle
    /\ LastCandle["close"] # <<100, 1>>

\* The profit factor of C8, on the fraction n/d (d > 0).
ProfitFactor(p) ==
    IF 20 * p[1] > p[2] THEN <<4, 5>>
    ELSE IF 50 * p[1] > p[2] THEN <<9, 10>>
    ELSE <<1, 1>>

\* The duration factor of C8, on seconds since the opening.
DurationFactor(seconds) == IF seconds > 120 * 60 THEN <<4, 5>> ELSE <<1, 1>>

\* C8: the multiplier is base * profit_factor * duration_factor with base
\* 1.5 * atr_ratio in an uptrend and 1.0 * atr_ratio otherwise, profit_factor
\* 0.8 above 5%, else 0.9 above 2%, else 1, and duration_factor 0.8 after more
\* than 120 minutes, else 1.
Thm_C8_Multiplier ==
    (sl.pc = "computed" /\ IsFinite(LastCandle["atr_ratio"])) =>
        sl.atr_multiplier =
            Mul(Mul(Mul(IF LastCandle["uptrend"] THEN <<3, 2>> ELSE <<1, 1>>,
                        LastCandle["atr_ratio"]),
                    ProfitFactor(sl.current_profit)),
                DurationFactor(sl.current_time - trade.open_date_utc))

\* Profit exactly 5% after exactly 120 minutes: the 0.9 tier and no duration
\* tightening.
Wit_C8_Boundaries ==
    /\ sl.pc = "computed"
    /\ LastCandle["atr_ratio"] = <<6, 5>>
    /\ LastCandle["uptrend"]
    /\ sl.current_profit = <<1, 20>>
    /\ sl.current_time - trade.open_date_utc = 7200
    /\ sl.atr_multiplier = <<81, 50>>

\* C9: with atr_ratio 0 on the last candle the call computes a stop: the
\* multiplier is 0, atr_stop_pct is (current_rate - open_rate) / open_rate and
\* the result is the greatest of that, swing_stop_pct and -0.15.
Thm_C9_ZeroRatio ==
    (sl.pc # "idle" /\ RunsLen(dataframe) >= 200
        /\ LastCandle["atr_ratio"] = <<0, 1>> /\ IsFinite(LastCandle["atr"])) =>
        /\ sl.pc = "computed"
        /\ sl.atr_multiplier = <<0, 1>>
        /\ sl.atr_stoploss_pct =
               Div(Sub(sl.current_rate, trade.open_rate), trade.open_rate)
        /\ IsMax3(sl.ret,
                  Div(Sub(sl.current_rate, trade.open_rate), trade.open_rate),
                  SwingStopPct, <<-3, 20>>)

\* atr_ratio 0 in an uptrend, with a profit above 5% after more than two hours.
Wit_C9_ZeroRatio ==
    /\ sl.pc = "computed"
    /\ LastCandle["atr_ratio"] = <<0, 1>>
    /\ LastCandle["uptrend"]
    /\ sl.current_profit = <<3, 50>>
    /\ sl.current_time - trade.open_date_utc > 7200

\* The tier of a profit (0: none, 1: above 2%, 2: above 5%) and of a duration.
ProfitTier(p) == IF 20 * p[1] > p[2] THEN 2 ELSE IF 50 * p[1] > p[2] THEN 1 ELSE 0

DurationTier(seconds) == IF seconds > 120 * 60 THEN 1 ELSE 0

\* The profit and time of another call on the same frame, trade and rate that
\* is at least as tightened as the call in the state.
AtLeastAsTight(p, t) ==
    /\ t >= trade.open_date_utc
    /\ ProfitTier(p) >= ProfitTier(sl.current_profit)
    /\ DurationTier(t - trade.open_date_utc)
           >= DurationTier(sl.current_time - trade.open_date_utc)

\* C10: with atr >= 0 and atr_ratio >= 0 a call that differs only by being in
\* a higher profit tier and/or past 120 minutes returns at least as much.
Thm_C10_TighteningMonotone ==
    (sl.pc = "computed" /\ GE(LastCandle["atr"], <<0, 1>>)
        /\ GE(LastCandle["atr_ratio"], <<0, 1>>) /\ IsFinite(LastCandle["swing_low"])) =>
        \A df \in {Frame} :
            \A p \in CallProfits, t \in CallTimes :
                AtLeastAsTight(p, t) =>
                    GE(custom_stoploss(df, trade, t, sl.current_rate, p).ret, sl.ret)

\* A tighter call that returns strictly more.
Wit_C10_StrictlyTighter ==
    /\ sl.pc = "computed"
    /\ GE(LastCandle["atr"], <<0, 1>>)
    /\ GE(LastCandle["atr_ratio"], <<0, 1>>)
    /\ \E df \in {Frame} :
           \E p \in CallProfits, t \in CallTimes :
               /\ AtLeastAsTight(p, t)
               /\ GT(custom_stoploss(df, trade, t, sl.current_rate, p).ret, sl.ret)

====
